---------------------------- MODULE Spec2Model ----------------------------
(***************************************************************************)
(* A model of kilo-rs (src/src/main.rs): the raw-mode terminal session,    *)
(* the escape-sequence key decoder (read_key), the text buffer and cursor  *)
(* (move_cursor, insert_char, del_char), the viewport (scroll, cx_to_rx)   *)
(* and the main loop with its quit confirmation.                           *)
(*                                                                         *)
(* Strings are Rust Strings: sequences of UTF-8 bytes.  len() counts       *)
(* bytes, slicing at an index inside a multi-byte character panics, and    *)
(* `u8 as char` followed by push() stores a byte >= 0x80 as two bytes.     *)
(* A panic ends the process without restoring the terminal (Editor has no  *)
(* Drop implementation).                                                   *)
(***************************************************************************)
EXTENDS Integers, Sequences, FiniteSets, TLC

VARIABLES
    pc,         \* position of main(): "init", "open", "refresh", "key", or an end state
    editor,     \* the fields of struct Editor
    raw,        \* TRUE while the terminal is in the raw mode set by Editor::new
    restores,   \* how many times the original termios has been reapplied
    exit_code,  \* the process's exit code once it has ended (-1 before)
    ended_by,   \* what ended it: "exit", or the call that panicked ("" before)
    streak,     \* consecutive Ctrl-Q presses processed since the last other key
    disk,       \* ./test.txt: whether it exists, and its bytes
    saved,      \* what save() did in the process_key call that just returned
                \* ("none" if it was not called)
    rk,         \* read_key's position and locals
    fin,        \* the arguments of the function under check
    fout        \* its result

vars == <<pc, editor, raw, restores, exit_code, ended_by, streak, disk, saved,
          rk, fin, fout>>

(***************************************************************************)
(* Program constants.                                                      *)
(***************************************************************************)
TAB_STOP == 8
QUIT_TIMES == 3
ESC == 27
TAB == 9
DEL_BYTE == 127
LBRACKET == 91
LETTER_O == 79
TILDE == 126
CTRL_MASK == 31
CTRL_BITS == 96
WELCOME_LEN == 28   \* "Kilo editor -- version " and a version such as 0.1.0
NL == 10
SEMICOLON == 59
U16_MAX == 65535
PANIC_CODE == 101

None == -1      \* a timed read that returned no byte

Max(a, b) == IF a >= b THEN a ELSE b
Min(a, b) == IF a <= b THEN a ELSE b

(***************************************************************************)
(* enum Key.  The payload b is 0 for the variants that carry none.         *)
(***************************************************************************)
KChar(b) == [t |-> "Char", b |-> b]
KCtrl(b) == [t |-> "Ctrl", b |-> b]
K(t) == [t |-> t, b |-> 0]
NoKey == K("none")

\* bitwise | and & of two bytes
RECURSIVE BitOr(_, _)
BitOr(a, b) ==
    IF a = 0 THEN b
    ELSE IF b = 0 THEN a
    ELSE 2 * BitOr(a \div 2, b \div 2) + Max(a % 2, b % 2)

RECURSIVE BitAnd(_, _)
BitAnd(a, b) ==
    IF a = 0 \/ b = 0 THEN 0
    ELSE 2 * BitAnd(a \div 2, b \div 2) + Min(a % 2, b % 2)

IsDigit(b) == b >= 48 /\ b <= 57

(***************************************************************************)
(* read_key, lines 130-191, one step per read of stdin.                    *)
(* rk.at is the read the function is blocked in: "first" (line 132), "s0", *)
(* "s1", "s2" (the read_char calls of lines 136, 141, 148) or "done".      *)
(* rk.look counts the read_char calls made, rk.timeout says that one of    *)
(* them returned None, rk.key is the value returned.                       *)
(***************************************************************************)
RkStart == [at |-> "first", buf0 |-> 0, s0 |-> 0, s1 |-> 0, s2 |-> 0,
            look |-> 0, timeout |-> FALSE, key |-> NoKey]

RkReturn(st, k) == [st EXCEPT !.at = "done", !.key = k]

\* lines 182-190: reached for a byte that is not ESC, and by falling out of
\* the ESC block of lines 134-180
RkTail(st) ==
    IF st.buf0 = DEL_BYTE THEN RkReturn(st, K("Backspace"))
    ELSE IF BitAnd(st.buf0, CTRL_MASK) = st.buf0
         THEN RkReturn(st, KCtrl(BitOr(st.buf0, CTRL_BITS)))
    ELSE RkReturn(st, KChar(st.buf0))

\* a table with the keys of ESC [ 5 ~ and ESC [ 6 ~ exchanged
CsiTildeSwapped(d) ==
    CASE d = 49 \/ d = 55 -> K("Home")
      [] d = 50 \/ d = 56 -> K("End")
      [] d = 51 -> K("Del")
      [] d = 53 -> K("PageDown")
      [] d = 54 -> K("PageUp")
      [] OTHER -> KChar(ESC)

\* lines 153-160
CsiTilde(d) ==
    CASE d = 49 \/ d = 55 -> K("Home")
      [] d = 50 \/ d = 56 -> K("End")
      [] d = 51 -> K("Del")
      [] d = 53 -> K("PageUp")
      [] d = 54 -> K("PageDown")
      [] OTHER -> KChar(ESC)

\* lines 163-171
CsiLetter(c) ==
    CASE c = 65 -> K("Up")
      [] c = 66 -> K("Down")
      [] c = 67 -> K("Right")
      [] c = 68 -> K("Left")
      [] c = 72 -> K("Home")
      [] c = 70 -> K("End")
      [] OTHER -> KChar(ESC)

\* lines 146-179, once s[0] and s[1] have been read
RkAfterS1(st) ==
    IF st.s0 = LBRACKET THEN
        IF IsDigit(st.s1) THEN [st EXCEPT !.at = "s2"]
        ELSE RkReturn(st, CsiLetter(st.s1))
    ELSE IF st.s0 = LETTER_O THEN
        IF st.s1 = 72 THEN RkReturn(st, K("Home"))
        ELSE IF st.s1 = 70 THEN RkReturn(st, K("End"))
        ELSE RkTail(st)
    ELSE RkTail(st)

\* a read_char that is called again after it returned None
OnTimeoutRetry(st) == [st EXCEPT !.look = @ + 1, !.timeout = TRUE]

\* lines 138, 143 and 150: read_char returned None
OnTimeout(st) ==
    RkReturn([st EXCEPT !.look = @ + 1, !.timeout = TRUE], KChar(ESC))

\* one read returning r (a byte, or None) in state st
rk_step(st, r) ==
    CASE st.at = "first" ->
            IF r = None THEN st
            ELSE IF r = ESC THEN [st EXCEPT !.buf0 = r, !.at = "s0"]
            ELSE RkTail([st EXCEPT !.buf0 = r])
      [] st.at = "s0" ->
            IF r = None THEN OnTimeout(st)
            ELSE [st EXCEPT !.s0 = r, !.look = @ + 1, !.at = "s1"]
      [] st.at = "s1" ->
            IF r = None THEN OnTimeout(st)
            ELSE RkAfterS1([st EXCEPT !.s1 = r, !.look = @ + 1])
      [] st.at = "s2" ->
            IF r = None THEN OnTimeout(st)
            ELSE IF r = TILDE
                 THEN RkReturn([st EXCEPT !.s2 = r, !.look = @ + 1], CsiTilde(st.s1))
                 ELSE RkTail([st EXCEPT !.s2 = r, !.look = @ + 1])
      [] OTHER -> st

\* read_key run on the read results inp, from state st
RECURSIVE rk_run(_, _)
rk_run(st, inp) ==
    IF st.at = "done" \/ inp = <<>> THEN st
    ELSE rk_run(rk_step(st, Head(inp)), Tail(inp))

read_key(inp) == rk_run(RkStart, inp).key


(***************************************************************************)
(* Rust Strings as sequences of UTF-8 bytes.                               *)
(***************************************************************************)
\* a UTF-8 continuation byte, 0b10xxxxxx
IsCont(b) == b >= 128 /\ b < 192

\* str::is_char_boundary(i), i counted from 0: what the slices s[..i] and
\* s[i..] of lines 482, 500 and 515 require, panicking otherwise
IsCharBoundary(s, i) ==
    \/ i = 0
    \/ i = Len(s)
    \/ (i > 0 /\ i < Len(s) /\ ~IsCont(s[i + 1]))

\* `c as char` of a byte c (a char of code c) as String::push stores it
CharBytes(c) ==
    IF c < 128 THEN <<c>> ELSE <<192 + (c \div 64), 128 + (c % 64)>>

\* s[..i] and s[i..]
Prefix(s, i) == SubSeq(s, 1, i)
Suffix(s, i) == SubSeq(s, i + 1, Len(s))

\* a walk in which every tab advances rx by TAB_STOP
RECURSIVE rx_walk_flat(_, _)
rx_walk_flat(bytes, acc) ==
    IF bytes = <<>> THEN acc
    ELSE IF IsCont(Head(bytes)) THEN rx_walk_flat(Tail(bytes), acc)
    ELSE IF Head(bytes) = TAB THEN rx_walk_flat(Tail(bytes), acc + TAB_STOP)
    ELSE rx_walk_flat(Tail(bytes), acc + 1)

\* lines 481-489 on the bytes of s[..cx]: chars() yields one char per byte
\* that is not a continuation byte
RECURSIVE rx_walk(_, _)
rx_walk(bytes, acc) ==
    IF bytes = <<>> THEN acc
    ELSE IF IsCont(Head(bytes)) THEN rx_walk(Tail(bytes), acc)
    ELSE IF Head(bytes) = TAB
         THEN rx_walk(Tail(bytes), acc + (TAB_STOP - (acc % TAB_STOP)))
         ELSE rx_walk(Tail(bytes), acc + 1)

\* cx_to_rx, lines 480-490, for a cx at which the slice does not panic
cx_to_rx(s, cx) == rx_walk(Prefix(s, cx), 0)

\* whether cx_to_rx(s, cx) returns: the slice s[..cx] of line 482
CxToRxReturns(s, cx) == cx <= Len(s) /\ IsCharBoundary(s, cx)

\* impl Render for String, lines 42-56, byte by byte: a tab becomes a space
\* and then spaces up to a length (in bytes) that is a multiple of TAB_STOP
RECURSIVE PadTo(_)
PadTo(res) == IF Len(res) % TAB_STOP # 0 THEN PadTo(Append(res, 32)) ELSE res

\* a rendering that draws a tab as one space
RECURSIVE render_walk_nopad(_, _)
render_walk_nopad(bytes, res) ==
    IF bytes = <<>> THEN res
    ELSE IF Head(bytes) = TAB THEN render_walk_nopad(Tail(bytes), Append(res, 32))
    ELSE render_walk_nopad(Tail(bytes), Append(res, Head(bytes)))

RECURSIVE render_walk(_, _)
render_walk(bytes, res) ==
    IF bytes = <<>> THEN res
    ELSE IF Head(bytes) = TAB THEN render_walk(Tail(bytes), PadTo(Append(res, 32)))
    ELSE render_walk(Tail(bytes), Append(res, Head(bytes)))

render(s) == render_walk(s, <<>>)

(***************************************************************************)
(* The editor.  e is the record of Editor's fields; e.panicked says that   *)
(* the call panicked (the fields then hold what had been assigned so far). *)
(***************************************************************************)
Panicked(e) == [e EXCEPT !.panicked = TRUE]

RowLen(e, y) == IF y < Len(e.rows) THEN Len(e.rows[y + 1]) ELSE 0

\* lines 226-233
ClampCx(e) ==
    LET rowlen == RowLen(e, e.cy)
    IN  IF e.cx > rowlen THEN [e EXCEPT !.cx = rowlen] ELSE e

\* lines 195-202; rows[cy] of line 200 panics when the index is out of bounds
MoveLeft(e) ==
    IF e.cx > 0 THEN [e EXCEPT !.cx = @ - 1]
    ELSE IF e.cy > 0 THEN
        IF e.cy - 1 < Len(e.rows)
        THEN [e EXCEPT !.cy = @ - 1, !.cx = Len(e.rows[e.cy])]
        ELSE Panicked([e EXCEPT !.cy = @ - 1])
    ELSE e

\* a Right that stays at the end of the last line
MoveRightStays(e) ==
    IF e.cy < Len(e.rows) THEN
        IF e.cx < Len(e.rows[e.cy + 1]) THEN [e EXCEPT !.cx = @ + 1]
        ELSE IF e.cy + 1 < Len(e.rows) THEN [e EXCEPT !.cy = @ + 1, !.cx = 0]
        ELSE e
    ELSE e

\* lines 203-212
MoveRight(e) ==
    IF e.cy < Len(e.rows) THEN
        IF e.cx < Len(e.rows[e.cy + 1]) THEN [e EXCEPT !.cx = @ + 1]
        ELSE [e EXCEPT !.cy = @ + 1, !.cx = 0]
    ELSE e

\* lines 213-217
MoveUp(e) == IF e.cy > 0 THEN [e EXCEPT !.cy = @ - 1] ELSE e

\* lines 218-222
MoveDown(e) == IF e.cy < Len(e.rows) THEN [e EXCEPT !.cy = @ + 1] ELSE e

\* move_cursor, lines 193-234
move_cursor(e, key) ==
    IF e.panicked THEN e
    ELSE LET m == CASE key.t = "Left" -> MoveLeft(e)
                    [] key.t = "Right" -> MoveRight(e)
                    [] key.t = "Up" -> MoveUp(e)
                    [] key.t = "Down" -> MoveDown(e)
                    [] OTHER -> e
         IN  IF m.panicked THEN m ELSE ClampCx(m)

RECURSIVE move_times(_, _, _)
move_times(e, key, n) ==
    IF n = 0 THEN e ELSE move_times(move_cursor(e, key), key, n - 1)

\* insert_char, lines 492-506.  rows[cy] of line 496 panics when cy is past
\* the row just pushed; the slices of line 500 panic inside a character.
insert_char(e, c) ==
    IF e.panicked THEN e
    ELSE
    LET rows1 == IF e.cy = Len(e.rows) THEN Append(e.rows, <<>>) ELSE e.rows
        e1 == [e EXCEPT !.rows = rows1]
    IN  IF e.cy >= Len(rows1) THEN Panicked(e1)
        ELSE
        LET row == rows1[e.cy + 1]
        IN  IF e.cx >= Len(row)
            THEN [e1 EXCEPT !.rows[e.cy + 1] = row \o CharBytes(c),
                            !.cx = @ + 1, !.dirty = TRUE]
            ELSE IF ~IsCharBoundary(row, e.cx) THEN Panicked(e1)
            ELSE [e1 EXCEPT !.rows[e.cy + 1] =
                                Prefix(row, e.cx) \o CharBytes(c) \o Suffix(row, e.cx),
                            !.cx = @ + 1, !.dirty = TRUE]

\* Vec::remove(i), i counted from 0
RemoveAt(seq, i) == SubSeq(seq, 1, i) \o SubSeq(seq, i + 2, Len(seq))

\* del_char, lines 508-523.  rows[cy] panics when cy > len(rows); the slices
\* row[..cx] and row[cx+1..] of line 515 panic inside a character or past
\* the end of the row.
del_char(e) ==
    IF e.panicked THEN e
    ELSE IF e.cy = Len(e.rows) THEN e
    ELSE IF e.cx = 0 /\ e.cy = 0 THEN e
    ELSE IF e.cy > Len(e.rows) THEN Panicked(e)
    ELSE IF e.cx > 0 THEN
        LET row == e.rows[e.cy + 1]
            ncx == e.cx - 1
            e1 == [e EXCEPT !.cx = ncx]
        IN  IF ncx + 1 > Len(row)
               \/ ~IsCharBoundary(row, ncx) \/ ~IsCharBoundary(row, ncx + 1)
            THEN Panicked(e1)
            ELSE [e1 EXCEPT !.rows[e.cy + 1] = Prefix(row, ncx) \o Suffix(row, ncx + 1),
                            !.dirty = TRUE]
    ELSE
        LET prev == e.rows[e.cy]
            cur == e.rows[e.cy + 1]
        IN  [e EXCEPT !.cx = Len(prev),
                      !.rows = RemoveAt([e.rows EXCEPT ![e.cy] = prev \o cur], e.cy),
                      !.cy = @ - 1,
                      !.dirty = TRUE]

\* a scroll that leaves the cursor one row and one column past the view
scroll_short(e) ==
    IF e.panicked THEN e
    ELSE
    LET ro1 == IF e.cy < e.rowoff THEN e.cy ELSE e.rowoff
        ro2 == IF e.cy >= ro1 + e.numrows THEN e.cy - e.numrows ELSE ro1
        e1 == [e EXCEPT !.rowoff = ro2, !.rx = 0]
    IN  IF e.cy < Len(e.rows) /\ ~CxToRxReturns(e.rows[e.cy + 1], e.cx)
        THEN Panicked(e1)
        ELSE
        LET rx1 == IF e.cy < Len(e.rows) THEN cx_to_rx(e.rows[e.cy + 1], e.cx) ELSE 0
            co1 == IF rx1 < e.coloff THEN rx1 ELSE e.coloff
            co2 == IF rx1 >= co1 + e.numcols THEN rx1 - e.numcols ELSE co1
        IN  [e1 EXCEPT !.rx = rx1, !.coloff = co2]

\* scroll, lines 457-478
scroll(e) ==
    IF e.panicked THEN e
    ELSE
    LET ro1 == IF e.cy < e.rowoff THEN e.cy ELSE e.rowoff
        ro2 == IF e.cy >= ro1 + e.numrows THEN e.cy - e.numrows + 1 ELSE ro1
        e1 == [e EXCEPT !.rowoff = ro2, !.rx = 0]
    IN  IF e.cy < Len(e.rows) /\ ~CxToRxReturns(e.rows[e.cy + 1], e.cx)
        THEN Panicked(e1)
        ELSE
        LET rx1 == IF e.cy < Len(e.rows) THEN cx_to_rx(e.rows[e.cy + 1], e.cx) ELSE 0
            co1 == IF rx1 < e.coloff THEN rx1 ELSE e.coloff
            co2 == IF rx1 >= co1 + e.numcols THEN rx1 - e.numcols + 1 ELSE co1
        IN  [e1 EXCEPT !.rx = rx1, !.coloff = co2]

(***************************************************************************)
(* Status messages: what set_status_msg (lines 387-390) was last given.    *)
(***************************************************************************)
Msg(kind, n) == [kind |-> kind, n |-> n]

set_status_msg(e, m) == [e EXCEPT !.status_msg = m]

\* rows_to_string, lines 525-527: join("\n") + "\n"
RECURSIVE JoinNL(_)
JoinNL(rs) ==
    IF rs = <<>> THEN <<>>
    ELSE IF Len(rs) = 1 THEN rs[1]
    ELSE rs[1] \o <<NL>> \o JoinNL(Tail(rs))

\* a serialization that lacks the trailing newline
rows_to_string_bare(rs) == JoinNL(rs)

rows_to_string(rs) == JoinNL(rs) \o <<NL>>

\* BufRead::lines() of line 115: the bytes between newlines; a final line
\* needs no newline, and nothing follows the last newline
RECURSIVE FileLines(_, _)
FileLines(bytes, cur) ==
    IF bytes = <<>> THEN (IF cur = <<>> THEN <<>> ELSE <<cur>>)
    ELSE IF Head(bytes) = NL THEN <<cur>> \o FileLines(Tail(bytes), <<>>)
    ELSE FileLines(Tail(bytes), Append(cur, Head(bytes)))

\* a save that clears the dirty flag whatever write returned
save_clears(e, d, how, n) ==
    IF e.filename = "none" THEN [e |-> e, disk |-> d, ok |-> TRUE, n |-> 0]
    ELSE IF how = "create_err" THEN [e |-> e, disk |-> d, ok |-> FALSE, n |-> 0]
    ELSE IF how = "write_err"
    THEN [e |-> [e EXCEPT !.dirty = FALSE],
          disk |-> [exists |-> TRUE, data |-> <<>>], ok |-> FALSE, n |-> 0]
    ELSE [e |-> [e EXCEPT !.dirty = FALSE],
          disk |-> [exists |-> TRUE, data |-> Prefix(rows_to_string(e.rows), n)],
          ok |-> TRUE, n |-> n]

\* save, lines 529-541.  how is what the file system does: "create_err"
\* (File::create fails, the file is untouched), "write_err" (the file was
\* truncated and write fails), or "ok" with n, the bytes write() took.
\* The result is the editor, the file, and save's return value.
save(e, d, how, n) ==
    IF e.filename = "none" THEN [e |-> e, disk |-> d, ok |-> TRUE, n |-> 0]
    ELSE IF how = "create_err" THEN [e |-> e, disk |-> d, ok |-> FALSE, n |-> 0]
    ELSE IF how = "write_err"
    THEN [e |-> e, disk |-> [exists |-> TRUE, data |-> <<>>], ok |-> FALSE, n |-> 0]
    ELSE [e |-> [e EXCEPT !.dirty = FALSE],
          disk |-> [exists |-> TRUE, data |-> Prefix(rows_to_string(e.rows), n)],
          ok |-> TRUE, n |-> n]

\* lines 250-262.  wrap says that the build wraps on overflow (release)
\* instead of panicking (debug).  rowoff + numrows - 1 underflows at 0 and
\* wraps to usize::MAX, which line 255 then clamps to len(rows).
PageMove(e, c, wrap) ==
    IF c.t = "PageUp"
    THEN move_times([e EXCEPT !.cy = e.rowoff], K("Up"), e.numrows)
    ELSE IF e.rowoff + e.numrows = 0 /\ ~wrap THEN Panicked(e)
    ELSE LET cy2 == IF e.rowoff + e.numrows = 0 \/ e.rowoff + e.numrows - 1 > Len(e.rows)
                    THEN Len(e.rows)
                    ELSE e.rowoff + e.numrows - 1
         IN  move_times([e EXCEPT !.cy = cy2], K("Down"), e.numrows)

CtrlQ == KCtrl(113)
CtrlS == KCtrl(115)
CtrlH == KCtrl(104)
CtrlL == KCtrl(108)

\* the match of lines 248-287 for a key other than Ctrl-S
DispatchMatch(e, c, wrap) ==
    CASE c.t \in {"Up", "Down", "Left", "Right"} -> move_cursor(e, c)
      [] c.t \in {"PageUp", "PageDown"} -> PageMove(e, c, wrap)
      [] c.t = "Home" -> [e EXCEPT !.cx = 0]
      [] c.t = "End" ->
            IF e.cy < Len(e.rows)
            THEN [e EXCEPT !.cx = Len(e.rows[e.cy + 1])]
            ELSE [e EXCEPT !.cx = 0]
      [] c = KChar(13) -> e
      [] c.t \in {"Backspace", "Del"} \/ c = CtrlH ->
            del_char(IF c.t = "Del" THEN move_cursor(e, K("Right")) ELSE e)
      [] c = CtrlL \/ c = KChar(ESC) -> e
      [] c.t = "Char" /\ c # KChar(13) /\ c # KChar(ESC) -> insert_char(e, c.b)
      [] OTHER -> e

\* a process_key whose line 288 is missing
DispatchNoReset(e, c, wrap) == DispatchMatch(e, c, wrap)

\* the match of lines 248-287, then line 288
Dispatch(e, c, wrap) ==
    LET r == DispatchMatch(e, c, wrap)
    IN  IF r.panicked THEN r ELSE [r EXCEPT !.quit_times = QUIT_TIMES]

\* lines 271-278, then line 288
DispatchSave(e, d, how, n) ==
    LET r == save(e, d, how, n)
        m == IF r.ok THEN Msg("written", r.n) ELSE Msg("cant_save", 0)
    IN  [r EXCEPT !.e = [set_status_msg(r.e, m) EXCEPT !.quit_times = QUIT_TIMES]]

\* a guard that lets the last warning go
QuitWarnsOneLess(e) == e.dirty /\ e.quit_times > 1

\* lines 239-245: the quit key while the buffer is dirty and presses remain
QuitWarns(e) == e.dirty /\ e.quit_times > 0

QuitWarn(e) ==
    [set_status_msg(e, Msg("warn", e.quit_times)) EXCEPT !.quit_times = @ - 1]

(***************************************************************************)
(* get_cursor_position, lines 392-416, on the bytes the terminal sent      *)
(* before 'R' or before a read timed out (the report).                     *)
(***************************************************************************)
\* str::split(";"): the fields between semicolons
RECURSIVE SplitSemi(_, _)
SplitSemi(bytes, cur) ==
    IF bytes = <<>> THEN <<cur>>
    ELSE IF Head(bytes) = SEMICOLON THEN <<cur>> \o SplitSemi(Tail(bytes), <<>>)
    ELSE SplitSemi(Tail(bytes), Append(cur, Head(bytes)))

RECURSIVE DigitsValue(_, _)
DigitsValue(bytes, acc) ==
    IF bytes = <<>> THEN acc
    ELSE DigitsValue(Tail(bytes), Min(10 * acc + (Head(bytes) - 48), U16_MAX + 1))

\* str::parse::<u16>(): decimal digits after an optional '+', at most u16::MAX
ParseU16(bytes) ==
    LET ds == IF bytes # <<>> /\ Head(bytes) = 43 THEN Tail(bytes) ELSE bytes
    IN  IF ds = <<>> \/ (\E i \in 1..Len(ds) : ~IsDigit(ds[i]))
        THEN [ok |-> FALSE, v |-> 0]
        ELSE LET v == DigitsValue(ds, 0)
             IN  [ok |-> v <= U16_MAX, v |-> IF v <= U16_MAX THEN v ELSE 0]

\* the result: "ok" with (rows, cols), "err" (the Err of lines 408 and 412),
\* or "panic" (an unwrap of line 410 or 415)
get_cursor_position(report) ==
    LET buf0 == IF Len(report) >= 1 THEN report[1] ELSE 0
        buf1 == IF Len(report) >= 2 THEN report[2] ELSE 0
        body == SubSeq(report, 3, Len(report))
        dims == SplitSemi(body, <<>>)
    IN  IF buf0 # ESC \/ buf1 # LBRACKET THEN [r |-> "err", rows |-> 0, cols |-> 0]
        ELSE IF \E i \in 1..Len(body) : body[i] >= 128
        THEN [r |-> "panic", rows |-> 0, cols |-> 0]
        ELSE IF Len(dims) # 2 THEN [r |-> "err", rows |-> 0, cols |-> 0]
        ELSE IF ~ParseU16(dims[1]).ok \/ ~ParseU16(dims[2]).ok
        THEN [r |-> "panic", rows |-> 0, cols |-> 0]
        ELSE [r |-> "ok", rows |-> ParseU16(dims[1]).v, cols |-> ParseU16(dims[2]).v]

\* get_window_size, lines 418-427.  ts is termsize::get(): a size, or NoSize;
\* wr says whether the write of line 422 succeeds.
NoSize == [rows |-> 0 - 1, cols |-> 0 - 1]

get_window_size(ts, wr, report) ==
    IF ts # NoSize THEN [r |-> "ok", rows |-> ts.rows, cols |-> ts.cols]
    ELSE IF ~wr THEN [r |-> "err", rows |-> 0, cols |-> 0]
    ELSE get_cursor_position(report)

(***************************************************************************)
(* Bounds and inputs of the model.                                         *)
(***************************************************************************)
MaxBytes == 1       \* insert_char is not offered on a buffer of this many bytes
MaxRows == 2        \* nor on the virtual line of a buffer of this many rows
MaxOver == 2        \* a key is not offered once cy is this far past len(rows)

\* terminal sizes (rows, cols): too few rows for the two bars, no text row,
\* one text row with no column, with fewer columns than the lines have, and
\* with room for the banner
WinSizes == {[rows |-> 1, cols |-> WELCOME_LEN + 2], [rows |-> 2, cols |-> 2],
             [rows |-> 3, cols |-> 0], [rows |-> 3, cols |-> 2],
             [rows |-> 3, cols |-> WELCOME_LEN + 2]}

\* cursor position reports: none, "x", ESC [ 3, ESC [ a ; 2, ESC [ 3 ; 2
Reports == {<<>>, <<120>>, <<ESC, LBRACKET, 51>>,
            <<ESC, LBRACKET, 97, SEMICOLON, 50>>,
            <<ESC, LBRACKET, 51, SEMICOLON, 50>>}

\* ./test.txt before the editor starts: missing, empty, a tab line and
\* "a" with no final newline, or a line of e-acute (0xC3 0xA9)
NoFile == [exists |-> FALSE, data |-> <<>>]
File(bytes) == [exists |-> TRUE, data |-> bytes]
InitFiles == {<<>>, <<TAB, NL, 97>>, <<195, 169, NL>>}

\* what stdin delivers to one read_key call: Ctrl-Q, Ctrl-S, Ctrl-H, DEL,
\* 'a', 0xE9, CR, the arrows, PageUp, PageDown, Del, Home, End, a lone ESC,
\* and ESC x y
KeyInputs == {<<17>>, <<19>>, <<8>>, <<DEL_BYTE>>, <<97>>, <<233>>, <<13>>,
              <<ESC, LBRACKET, 65>>, <<ESC, LBRACKET, 66>>,
              <<ESC, LBRACKET, 67>>, <<ESC, LBRACKET, 68>>,
              <<ESC, LBRACKET, 53, TILDE>>, <<ESC, LBRACKET, 54, TILDE>>,
              <<ESC, LBRACKET, 51, TILDE>>,
              <<ESC, LBRACKET, 72>>, <<ESC, LETTER_O, 70>>,
              <<ESC, None>>, <<ESC, 120, 121>>}

Keys == {read_key(inp) : inp \in KeyInputs}

RECURSIVE TotalBytes(_)
TotalBytes(rs) == IF rs = <<>> THEN 0 ELSE Len(Head(rs)) + TotalBytes(Tail(rs))

\* the bound on the buffer's growth
InsertOffered(e, c) ==
    /\ TotalBytes(e.rows) + Len(CharBytes(c.b)) <= MaxBytes
    /\ e.cy >= Len(e.rows) => Len(e.rows) < MaxRows

Inserts(c) == c.t = "Char" /\ c # KChar(13) /\ c # KChar(ESC)

(***************************************************************************)
(* main, lines 544-555.                                                    *)
(***************************************************************************)
\* Editor::new, lines 78-110: the fields, with the terminal in raw mode
NewEditor ==
    [numrows |-> 25, numcols |-> 80, cx |-> 0, cy |-> 0, rx |-> 0,
     rows |-> <<>>, rowoff |-> 0, coloff |-> 0, dirty |-> FALSE,
     quit_times |-> QUIT_TIMES, filename |-> "none",
     status_msg |-> Msg("", 0), panicked |-> FALSE]

\* fin: the arguments of the call under study; fout: what it returned
Idle == [line |-> <<>>, cx |-> 0]
NoOut == [ok |-> TRUE, rx |-> 0]

Init ==
    /\ pc = "init"
    /\ editor = NewEditor
    /\ raw = TRUE
    /\ restores = 0
    /\ exit_code = 0 - 1
    /\ ended_by = ""
    /\ streak = 0
    /\ disk \in {NoFile} \cup {File(f) : f \in InitFiles}
    /\ saved = "none"
    /\ rk = RkStart
    /\ fin = Idle
    /\ fout = NoOut

Aux == <<rk, fin, fout>>

\* a panic: the thread unwinds and the process ends with code 101; nothing
\* restores the terminal
Panic(at) ==
    /\ pc' = "panicked"
    /\ exit_code' = PANIC_CODE
    /\ ended_by' = at
    /\ UNCHANGED <<raw, restores>>

\* exit, lines 435-439, after which the process has ended: the write of line
\* 436 is unwrapped, tcsetattr of line 437 is expected, then process::exit
Exit(code, wr, tc) ==
    IF ~wr THEN Panic("exit_write")
    ELSE IF ~tc THEN Panic("exit_tcsetattr")
    ELSE /\ pc' = "exited"
         /\ ended_by' = "exit"
         /\ exit_code' = code
         /\ raw' = FALSE
         /\ restores' = restores + 1

\* die, lines 441-445: two unwrapped writes, then exit(1)
Die(wr1, wr2, wr3, tc) ==
    IF ~wr1 \/ ~wr2 THEN Panic("die_write") ELSE Exit(1, wr3, tc)

\* init, lines 120-128, with a window size
InitOk ==
    /\ pc = "init"
    /\ \E ts \in WinSizes \cup {NoSize}, rep \in Reports :
         LET ws == get_window_size(ts, TRUE, rep)
         IN  /\ ws.r = "ok"
             /\ ws.rows >= 2
             /\ editor' = [editor EXCEPT !.numcols = ws.cols, !.numrows = ws.rows - 2]
    /\ pc' = "open"
    /\ UNCHANGED <<raw, restores, exit_code, ended_by, streak, disk, saved, Aux>>

\* init with fewer than two rows: rows - 2 of line 124 underflows.  A debug
\* build panics; a release build wraps, numrows is 2^64 - 1 or 2^64 - 2 and
\* the loop of line 309 of the first refresh_screen does not end.
InitTiny ==
    /\ pc = "init"
    /\ \E ts \in WinSizes :
         /\ ts.rows < 2
         /\ editor' = [editor EXCEPT !.numcols = ts.cols]
    /\ \/ Panic("init_underflow")
       \/ pc' = "hung" /\ UNCHANGED <<raw, restores, exit_code, ended_by>>
    /\ UNCHANGED <<streak, disk, saved, Aux>>

\* init when get_window_size fails (die), or panics in an unwrap
InitFails ==
    /\ pc = "init"
    /\ \E wr \in BOOLEAN, rep \in Reports :
         LET ws == get_window_size(NoSize, wr, rep)
         IN  \/ /\ ws.r = "err"
                /\ \E wr1, wr2, wr3, tc \in BOOLEAN : Die(wr1, wr2, wr3, tc)
             \/ /\ ws.r = "panic"
                /\ Panic("report_unwrap")
    /\ UNCHANGED <<editor, streak, disk, saved, Aux>>

\* open("./test.txt").unwrap() and set_status_msg, lines 547-549
Open ==
    /\ pc = "open"
    /\ IF disk.exists
       THEN /\ editor' = set_status_msg(
                   [editor EXCEPT !.filename = "./test.txt",
                                  !.rows = FileLines(disk.data, <<>>),
                                  !.dirty = FALSE],
                   Msg("help", 0))
            /\ pc' = "refresh"
            /\ UNCHANGED <<raw, restores, exit_code, ended_by>>
       ELSE /\ Panic("open")
            /\ UNCHANGED editor
    /\ UNCHANGED <<streak, disk, saved, Aux>>

\* draw_rows, lines 307-341: whether a slice of line 329 or 331 panics on
\* one of the rows in view
DrawRowsPanics(e) ==
    \E y \in 0..(e.numrows - 1) :
        /\ y + e.rowoff < Len(e.rows)
        /\ LET row == render(e.rows[y + e.rowoff + 1])
           IN  /\ e.coloff < Len(row)
               /\ \/ ~IsCharBoundary(row, e.coloff)
                  \/ /\ Len(row) - e.coloff > e.numcols
                     /\ ~IsCharBoundary(Suffix(row, e.coloff), e.numcols)

\* draw_rows: numcols - welcome.len() of line 314 underflows for the banner
\* of an empty buffer on a narrow terminal
BannerUnderflows(e) ==
    e.rows = <<>> /\ e.numrows >= 1 /\ e.numcols < WELCOME_LEN

\* lines 298-301: cy - rowoff and rx - coloff underflow
CursorUnderflows(e) == e.cy < e.rowoff \/ e.rx < e.coloff

\* refresh_screen().unwrap(), lines 292-305 and 552.  wr says whether the
\* writes succeed, wrap whether the build wraps on overflow.
\* "ok": the frame is written; "hung": the padding loop of line 319 runs
\* some 2^64 times; otherwise the panic: "slice" (a str slice), "overflow"
\* (a debug build's arithmetic check), "refresh" (the unwrap of an Err).
RefreshResult(e, wrap, wr) ==
    IF e.panicked \/ DrawRowsPanics(e) THEN "slice"
    ELSE IF BannerUnderflows(e) THEN (IF wrap THEN "hung" ELSE "overflow")
    ELSE IF CursorUnderflows(e) /\ ~wrap THEN "overflow"
    ELSE IF ~wr THEN "refresh"
    ELSE "ok"

RefreshScreen ==
    /\ pc = "refresh"
    /\ editor' = scroll(editor)
    /\ \E wrap, wr \in BOOLEAN :
         LET res == RefreshResult(editor', wrap, wr)
         IN  \/ res = "ok" /\ pc' = "key" /\ UNCHANGED <<raw, restores, exit_code, ended_by>>
             \/ res = "hung" /\ pc' = "hung" /\ UNCHANGED <<raw, restores, exit_code, ended_by>>
             \/ res \notin {"ok", "hung"} /\ Panic(res)
    /\ saved' = "none"
    /\ UNCHANGED <<streak, disk, Aux>>

\* process_key().unwrap(): the read of line 132 fails
KeyReadFails ==
    /\ pc = "key"
    /\ Panic("read_key")
    /\ saved' = "none"
    /\ UNCHANGED <<editor, streak, disk, Aux>>

\* process_key, lines 239-245: Ctrl-Q that only warns
KeyQuitWarn ==
    /\ pc = "key"
    /\ CtrlQ \in Keys
    /\ QuitWarns(editor)
    /\ editor' = QuitWarn(editor)
    /\ streak' = streak + 1
    /\ pc' = "refresh"
    /\ saved' = "none"
    /\ UNCHANGED <<raw, restores, exit_code, ended_by, disk, Aux>>

\* process_key, line 246: Ctrl-Q that exits
KeyQuitExit ==
    /\ pc = "key"
    /\ CtrlQ \in Keys
    /\ ~QuitWarns(editor)
    /\ streak' = streak + 1
    /\ \E wr, tc \in BOOLEAN : Exit(0, wr, tc)
    /\ saved' = "none"
    /\ UNCHANGED <<editor, disk, Aux>>

\* process_key, lines 271-278: Ctrl-S
KeySave ==
    /\ pc = "key"
    /\ CtrlS \in Keys
    /\ \E how \in {"create_err", "write_err", "ok"},
          n \in 0..Len(rows_to_string(editor.rows)) :
         LET r == DispatchSave(editor, disk, how, n)
         IN  /\ editor' = r.e
             /\ disk' = r.disk
             /\ saved' = IF r.ok THEN "ok" ELSE how
    /\ streak' = 0
    /\ pc' = "refresh"
    /\ UNCHANGED <<raw, restores, exit_code, ended_by, Aux>>

\* process_key, lines 248-289: every other key
KeyOther ==
    /\ pc = "key"
    /\ \E c \in Keys \ {CtrlQ, CtrlS}, wrap \in BOOLEAN :
         /\ Inserts(c) => InsertOffered(editor, c)
         /\ editor.cy < Len(editor.rows) + MaxOver
         /\ editor' = Dispatch(editor, c, wrap)
    /\ streak' = 0
    /\ IF editor'.panicked
       THEN Panic("process_key")
       ELSE pc' = "refresh" /\ UNCHANGED <<raw, restores, exit_code, ended_by>>
    /\ saved' = "none"
    /\ UNCHANGED <<disk, Aux>>

Next ==
    \/ InitOk
    \/ InitTiny
    \/ InitFails
    \/ Open
    \/ RefreshScreen
    \/ KeyReadFails
    \/ KeyQuitWarn
    \/ KeyQuitExit
    \/ KeySave
    \/ KeyOther

Spec == Init /\ [][Next]_vars

(***************************************************************************)
(* Properties of the main loop.                                            *)
(***************************************************************************)
Running == pc \in {"refresh", "key"}
Ended == pc \in {"exited", "panicked"}

\* the ends the process comes to by exit (a quit, or die) and by the unwraps
\* of main: of open, of refresh_screen's Err, of process_key's Err
MainExits == {"exit", "open", "refresh", "read_key"}

\* C1: whenever the process has ended by a quit, by a fatal window-size
\* failure, by a failure to open the file or by an I/O error of
\* refresh_screen or process_key, the original terminal configuration has
\* been reapplied exactly once and the terminal is no longer in raw mode.
C1_RestoredOnEveryExit ==
    (Ended /\ ended_by \in MainExits) => (~raw /\ restores = 1)

\* C2 as stated: in a dirty buffer, once three consecutive Ctrl-Q presses
\* have been processed the process has ended.
C2_ThreePressesQuit == (editor.dirty /\ streak = QUIT_TIMES) => Ended

\* C2: in a dirty buffer the first QUIT_TIMES consecutive Ctrl-Q presses only
\* warn, counting quit_times down from QUIT_TIMES to 0, and the press after
\* them reaches exit: a quit of a dirty buffer takes QUIT_TIMES + 1 presses.
C2_FourPressesQuit ==
    /\ (editor.dirty /\ Running) =>
            (streak <= QUIT_TIMES /\ editor.quit_times = QUIT_TIMES - streak)
    /\ (editor.dirty /\ streak = QUIT_TIMES + 1) => Ended
    /\ (editor.dirty /\ pc = "exited") => streak = QUIT_TIMES + 1

C2_Witness ==
    pc = "exited" /\ editor.dirty /\ streak = QUIT_TIMES + 1 /\ exit_code = 0

\* C3: a process_key call that returns after a key other than Ctrl-Q
\* (streak' = 0) leaves quit_times at QUIT_TIMES; one that returns after a
\* Ctrl-Q (a warning) decrements quit_times by one, sets the warning and
\* leaves rows, cx, cy and dirty as they were.
C3_QuitTimesReset ==
    [][(pc = "key" /\ pc' = "refresh") =>
          IF streak' = 0
          THEN editor'.quit_times = QUIT_TIMES
          ELSE /\ editor'.quit_times = editor.quit_times - 1
               /\ editor'.status_msg = Msg("warn", editor.quit_times)
               /\ editor'.rows = editor.rows
               /\ editor'.cx = editor.cx
               /\ editor'.cy = editor.cy
               /\ editor'.dirty = editor.dirty]_vars

\* a key other than Ctrl-Q has been processed after a warning had counted
\* quit_times down, and quit_times is QUIT_TIMES again
C3_Witness ==
    /\ pc = "refresh"
    /\ streak = 0
    /\ editor.dirty
    /\ editor.status_msg.kind = "warn"
    /\ editor.status_msg.n < QUIT_TIMES
    /\ editor.quit_times = QUIT_TIMES

CursorInBuffer(e) ==
    /\ 0 <= e.cy /\ e.cy <= Len(e.rows)
    /\ e.cy < Len(e.rows) => (0 <= e.cx /\ e.cx <= Len(e.rows[e.cy + 1]))
    /\ e.cy = Len(e.rows) => e.cx = 0

\* C4: while the main loop runs, 0 <= cy <= len(rows), cx is within row cy,
\* and cx = 0 on the virtual line after the last row.
C4_CursorInBuffer == Running => CursorInBuffer(editor)

InView(e) ==
    /\ e.rowoff <= e.cy /\ e.cy < e.rowoff + e.numrows
    /\ e.coloff <= e.rx /\ e.rx < e.coloff + e.numcols

\* C5 as stated: right after scroll (refresh_screen has returned), for every
\* viewport size, the cursor's row and render column are inside the view.
C5_InViewAnySize == pc = "key" => InView(editor)

\* C5: right after scroll, for every viewport of at least one text row and
\* one column, rowoff <= cy < rowoff + numrows and
\* coloff <= rx < coloff + numcols.
C5_InView ==
    (pc = "key" /\ editor.numrows >= 1 /\ editor.numcols >= 1) => InView(editor)

\* the view has scrolled down and right to follow the cursor
C5_Witness ==
    /\ pc = "key"
    /\ editor.numrows >= 1 /\ editor.numcols >= 1
    /\ editor.rowoff > 0 /\ editor.coloff > 0
    /\ InView(editor)

(***************************************************************************)
(* read_key alone: one call, every byte and every timeout.                 *)
(***************************************************************************)
Bytes == 0..255
ReadResults == Bytes \cup {None}

InitKey ==
    /\ pc = "key"
    /\ editor = NewEditor
    /\ raw = TRUE
    /\ restores = 0
    /\ exit_code = 0 - 1
    /\ ended_by = ""
    /\ streak = 0
    /\ disk = NoFile
    /\ saved = "none"
    /\ rk = RkStart
    /\ fin = Idle
    /\ fout = NoOut

\* one read of stdin inside read_key: line 132, or a read_char
RkRead ==
    /\ rk.at # "done"
    /\ \E r \in ReadResults : rk' = rk_step(rk, r)
    /\ UNCHANGED <<pc, editor, raw, restores, exit_code, ended_by, streak, disk, saved, fin, fout>>

NextKey == RkRead

SpecKey == InitKey /\ [][NextKey]_vars

RkDone == rk.at = "done"

\* what followed ESC is no recognised sequence (every byte of it arrived)
Unrecognised ==
    \/ rk.s0 # LBRACKET /\ rk.s0 # LETTER_O
    \/ rk.s0 = LETTER_O /\ rk.s1 \notin {72, 70}
    \/ rk.s0 = LBRACKET /\ ~IsDigit(rk.s1) /\ rk.s1 \notin {65, 66, 67, 68, 72, 70}
    \/ rk.s0 = LBRACKET /\ IsDigit(rk.s1) /\ rk.look = 3 /\ rk.s2 # TILDE
    \/ rk.s0 = LBRACKET /\ rk.s1 \in {48, 52, 57} /\ rk.look = 3 /\ rk.s2 = TILDE

\* C7: read_key returns Char(ESC) for ESC followed by lookahead bytes that
\* all arrive and form no recognised sequence.
C7_UnrecognisedIsEsc ==
    (RkDone /\ rk.buf0 = ESC /\ ~rk.timeout /\ Unrecognised) => rk.key = KChar(ESC)

\* the keys of the complete sequences ESC [ x, ESC [ d ~ and ESC O x
CsiLetterTable ==
    {<<65, "Up">>, <<66, "Down">>, <<67, "Right">>, <<68, "Left">>,
     <<72, "Home">>, <<70, "End">>}
CsiTildeTable ==
    {<<49, "Home">>, <<55, "Home">>, <<50, "End">>, <<56, "End">>,
     <<51, "Del">>, <<53, "PageUp">>, <<54, "PageDown">>}
Ss3Table == {<<72, "Home">>, <<70, "End">>}

\* C8: read_key returns the table's key for every complete recognised
\* escape sequence, and for a single byte other than ESC: Backspace for 127,
\* Ctrl(byte | 0x60) for 0x00-0x1f, Char(byte) otherwise.
C8_KeyTable ==
    RkDone =>
      /\ rk.buf0 # ESC =>
            rk.key = IF rk.buf0 = 127 THEN K("Backspace")
                     ELSE IF rk.buf0 <= 31 THEN KCtrl(rk.buf0 + 96)
                     ELSE KChar(rk.buf0)
      /\ rk.buf0 # ESC => rk.look = 0
      /\ \A p \in CsiLetterTable :
            (rk.buf0 = ESC /\ rk.look = 2 /\ ~rk.timeout
                /\ rk.s0 = LBRACKET /\ rk.s1 = p[1]) => rk.key = K(p[2])
      /\ \A p \in CsiTildeTable :
            (rk.buf0 = ESC /\ rk.look = 3 /\ ~rk.timeout
                /\ rk.s0 = LBRACKET /\ rk.s1 = p[1] /\ rk.s2 = TILDE) => rk.key = K(p[2])
      /\ \A p \in Ss3Table :
            (rk.buf0 = ESC /\ rk.look = 2 /\ ~rk.timeout
                /\ rk.s0 = LETTER_O /\ rk.s1 = p[1]) => rk.key = K(p[2])

\* ESC [ 6 ~ has been decoded as PageDown
C8_Witness ==
    /\ RkDone /\ rk.buf0 = ESC /\ ~rk.timeout
    /\ rk.s0 = LBRACKET /\ rk.s1 = 54 /\ rk.s2 = TILDE
    /\ rk.key = K("PageDown")

\* C9: after ESC, read_key makes at most three further reads; a read that
\* returned no byte is never followed by another read (the call has
\* returned), and the key returned is then Char(ESC).
C9_BoundedLookahead ==
    /\ rk.look <= 3
    /\ rk.look = 3 => RkDone
    /\ rk.timeout => (RkDone /\ rk.key = KChar(ESC))

\* the third lookahead read timed out and read_key returned Char(ESC)
C9_Witness ==
    RkDone /\ rk.timeout /\ rk.look = 3 /\ rk.key = KChar(ESC)

(***************************************************************************)
(* cx_to_rx alone: one call on a line and a byte offset cx into it.        *)
(***************************************************************************)
MaxChars == 8       \* characters of a line of 'a' and tab
MaxWide == 3        \* characters of a line of 'a', tab and e-acute or 'b'

SeqsUpTo(S, n) == UNION {[1..k -> S] : k \in 0..n}

\* the String of the chars of codes cs
RECURSIVE Encode(_)
Encode(cs) == IF cs = <<>> THEN <<>> ELSE CharBytes(Head(cs)) \o Encode(Tail(cs))

Lines ==
    {Encode(cs) : cs \in SeqsUpTo({97, TAB}, MaxChars)
                         \cup SeqsUpTo({97, TAB, 233}, MaxWide)
                         \cup SeqsUpTo({97, TAB, 98}, MaxWide)}

InitRx ==
    /\ pc = "rx_call"
    /\ editor = NewEditor
    /\ raw = TRUE
    /\ restores = 0
    /\ exit_code = 0 - 1
    /\ ended_by = ""
    /\ streak = 0
    /\ disk = NoFile
    /\ saved = "none"
    /\ rk = RkStart
    /\ fin \in UNION {{[line |-> l, cx |-> c] : c \in 0..Len(l)} : l \in Lines}
    /\ fout = NoOut

\* the call cx_to_rx(line, cx), lines 480-490; ok = FALSE is the panic of the
\* slice of line 482
CxToRx ==
    /\ pc = "rx_call"
    /\ fout' = IF CxToRxReturns(fin.line, fin.cx)
               THEN [ok |-> TRUE, rx |-> cx_to_rx(fin.line, fin.cx)]
               ELSE [ok |-> FALSE, rx |-> 0]
    /\ pc' = "rx_done"
    /\ UNCHANGED <<editor, raw, restores, exit_code, ended_by, streak, disk, saved, rk, fin>>

NextRx == CxToRx

SpecRx == InitRx /\ [][NextRx]_vars

HasTab(bytes) == \E i \in 1..Len(bytes) : bytes[i] = TAB
IsAscii(bytes) == \A i \in 1..Len(bytes) : bytes[i] < 128
NChars(bytes) == Cardinality({i \in 1..Len(bytes) : ~IsCont(bytes[i])})

\* C6 as stated: for every line and every cx with 0 <= cx <= len(line),
\* cx_to_rx returns an rx with rx >= cx, and rx = cx if and only if
\* line[0..cx] contains no tab.
C6_RxEqualsCxIffNoTab ==
    pc = "rx_done" =>
      /\ fout.ok
      /\ fout.rx >= fin.cx
      /\ (fout.rx = fin.cx) <=> ~HasTab(Prefix(fin.line, fin.cx))

\* C6: cx_to_rx(line, cx) returns exactly when cx is on a character
\* boundary of the line; rx is then at least the number of characters of
\* line[0..cx] (which is cx when they are all single bytes), equal to it if
\* the prefix has no tab, and a multiple of TAB_STOP if the prefix ends with
\* a tab.
C6_RxAtLeastChars ==
    pc = "rx_done" =>
      LET pre == Prefix(fin.line, fin.cx)
      IN  /\ fout.ok <=> IsCharBoundary(fin.line, fin.cx)
          /\ fout.ok =>
               /\ fout.rx >= NChars(pre)
               /\ IsAscii(pre) => fout.rx >= fin.cx
               /\ ~HasTab(pre) => fout.rx = NChars(pre)
               /\ (pre # <<>> /\ pre[Len(pre)] = TAB) => fout.rx % TAB_STOP = 0

\* seven letters and a tab: the prefix has a tab and rx = cx = 8
C6_Witness ==
    /\ pc = "rx_done" /\ fout.ok
    /\ HasTab(Prefix(fin.line, fin.cx))
    /\ IsAscii(fin.line)
    /\ fout.rx = fin.cx

(***************************************************************************)
(* insert_char and then del_char, on a buffer with a valid cursor.         *)
(***************************************************************************)
MaxOpRows == 2      \* rows of the buffer

\* the rows: "", "a", "ab" and e-acute
OpLines == {<<>>, <<97>>, <<97, 98>>, <<195, 169>>}
OpChars == {97, TAB, 233}

OpEditors ==
    UNION {UNION {{[NewEditor EXCEPT !.rows = rs, !.cy = y, !.cx = x] :
                        x \in 0..(IF y < Len(rs) THEN Len(rs[y + 1]) ELSE 0)} :
                  y \in 0..Len(rs)} :
           rs \in SeqsUpTo(OpLines, MaxOpRows)}

InitOps ==
    /\ pc = "ops_call"
    /\ fin \in {[e |-> e, ch |-> c] : e \in OpEditors, c \in OpChars}
    /\ editor = fin.e
    /\ raw = TRUE
    /\ restores = 0
    /\ exit_code = 0 - 1
    /\ ended_by = ""
    /\ streak = 0
    /\ disk = NoFile
    /\ saved = "none"
    /\ rk = RkStart
    /\ fout = NoOut

\* insert_char(ch) and then del_char, as lines 286 and 259 call them
InsertThenDelete ==
    /\ pc = "ops_call"
    /\ editor' = del_char(insert_char(editor, fin.ch))
    /\ pc' = "ops_done"
    /\ UNCHANGED <<raw, restores, exit_code, ended_by, streak, disk, saved, rk, fin, fout>>

NextOps == InsertThenDelete

SpecOps == InitOps /\ [][NextOps]_vars

\* C10: insert_char(ch) followed by del_char leaves the lines (content and
\* count) and the cursor (cy, cx) as they were before the insert, on the
\* virtual trailing line too.
C10_InsertDeleteRestores ==
    pc = "ops_done" =>
      /\ ~editor.panicked
      /\ editor.rows = fin.e.rows
      /\ editor.cy = fin.e.cy
      /\ editor.cx = fin.e.cx

(***************************************************************************)
(* One call of del_char, of move_cursor, or of process_key with the Del    *)
(* key, on a buffer with a valid cursor.  fin.e is the editor before the   *)
(* call, fin.op the call.                                                  *)
(***************************************************************************)
Arrows == {"Left", "Right", "Up", "Down"}
EditOps == {"del_char", "Del"} \cup Arrows

EditEditors == {[e EXCEPT !.dirty = d] : e \in OpEditors, d \in BOOLEAN}

InitEdit ==
    /\ pc = "edit_call"
    /\ fin \in {[e |-> e, op |-> o] : e \in EditEditors, o \in EditOps}
    /\ editor = fin.e
    /\ raw = TRUE
    /\ restores = 0
    /\ exit_code = 0 - 1
    /\ ended_by = ""
    /\ streak = 0
    /\ disk = NoFile
    /\ saved = "none"
    /\ rk = RkStart
    /\ fout = NoOut

EditFrame == <<raw, restores, exit_code, ended_by, streak, disk, saved, rk, fin, fout>>

\* del_char(), lines 508-523
CallDelChar ==
    /\ pc = "edit_call"
    /\ fin.op = "del_char"
    /\ editor' = del_char(editor)
    /\ pc' = "del_char_done"
    /\ UNCHANGED EditFrame

\* move_cursor(key), lines 193-234
CallMoveCursor ==
    /\ pc = "edit_call"
    /\ fin.op \in Arrows
    /\ editor' = move_cursor(editor, K(fin.op))
    /\ pc' = "move_done"
    /\ UNCHANGED EditFrame

\* process_key on Key::Del, lines 280-283 and 288
KeyDel ==
    /\ pc = "edit_call"
    /\ fin.op = "Del"
    /\ \E wrap \in BOOLEAN : editor' = Dispatch(editor, K("Del"), wrap)
    /\ pc' = "del_key_done"
    /\ UNCHANGED EditFrame

NextEdit ==
    \/ CallDelChar
    \/ CallMoveCursor
    \/ KeyDel

SpecEdit == InitEdit /\ [][NextEdit]_vars

\* the sequence s without its element at index i (counted from 0)
Without(s, i) == [k \in 1..(Len(s) - 1) |-> IF k <= i THEN s[k] ELSE s[k + 1]]

SameBuffer(o, n) ==
    n.rows = o.rows /\ n.cy = o.cy /\ n.cx = o.cx /\ n.dirty = o.dirty

\* what C11 says del_char does to the editor o, giving n
DelCharAsStated(o, n) ==
    /\ ~n.panicked
    /\ (o.cy = Len(o.rows) \/ (o.cy = 0 /\ o.cx = 0)) => SameBuffer(o, n)
    /\ (o.cx = 0 /\ 0 < o.cy /\ o.cy < Len(o.rows)) =>
          /\ Len(n.rows) = Len(o.rows) - 1
          /\ n.rows[o.cy] = o.rows[o.cy] \o o.rows[o.cy + 1]
          /\ \A k \in 1..Len(n.rows) :
                k # o.cy => n.rows[k] = (IF k < o.cy THEN o.rows[k] ELSE o.rows[k + 1])
          /\ n.cy = o.cy - 1
          /\ n.cx = Len(o.rows[o.cy])
          /\ n.dirty
    /\ (o.cx > 0 /\ o.cy < Len(o.rows)) =>
          /\ Len(n.rows) = Len(o.rows)
          /\ n.rows[o.cy + 1] = Without(o.rows[o.cy + 1], o.cx - 1)
          /\ \A k \in 1..Len(n.rows) : k # o.cy + 1 => n.rows[k] = o.rows[k]
          /\ n.cy = o.cy
          /\ n.cx = o.cx - 1
          /\ n.dirty

\* C11: del_char is a no-op on the virtual line and at (0, 0); at cx = 0 of
\* a line cy > 0 it joins line cy onto line cy-1, removes line cy, moves the
\* cursor to the join point and sets dirty; at cx > 0 it removes the
\* character at index cx-1, decrements cx and sets dirty.
C11_DelChar ==
    pc = "del_char_done" => DelCharAsStated(fin.e, editor)

(***************************************************************************)
(* rows_to_string alone: one call on a sequence of lines.                  *)
(***************************************************************************)
MaxSerRows == 3     \* lines of the buffer serialized

\* the lines "", "x", "y" and "xy"
SerLines == {<<>>, <<120>>, <<121>>, <<120, 121>>}

InitSer ==
    /\ pc = "ser_call"
    /\ fin \in {[rows |-> rs] : rs \in SeqsUpTo(SerLines, MaxSerRows)}
    /\ editor = [NewEditor EXCEPT !.rows = fin.rows]
    /\ raw = TRUE
    /\ restores = 0
    /\ exit_code = 0 - 1
    /\ ended_by = ""
    /\ streak = 0
    /\ disk = NoFile
    /\ saved = "none"
    /\ rk = RkStart
    /\ fout = NoOut

\* rows_to_string(), lines 525-527
RowsToString ==
    /\ pc = "ser_call"
    /\ fout' = [s |-> rows_to_string(editor.rows)]
    /\ pc' = "ser_done"
    /\ UNCHANGED <<editor, raw, restores, exit_code, ended_by, streak, disk, saved, rk, fin>>

NextSer == RowsToString

SpecSer == InitSer /\ [][NextSer]_vars

\* where line i starts in the serialization: after the i-1 lines before it
\* and their separators
RECURSIVE LineStart(_, _)
LineStart(rs, i) ==
    IF i = 1 THEN 0 ELSE LineStart(rs, i - 1) + Len(rs[i - 1]) + 1

\* C12: rows_to_string returns the lines joined by a single '\n' and then
\* exactly one trailing '\n' ("\n" alone for no line); ["x","y"] gives
\* "x\ny\n".
C12_Serialize ==
    pc = "ser_done" =>
      LET rs == fin.rows
          out == fout.s
      IN  /\ Len(out) = (IF rs = <<>> THEN 1
                         ELSE LineStart(rs, Len(rs)) + Len(rs[Len(rs)]) + 1)
          /\ out[Len(out)] = NL
          /\ \A i \in 1..Len(rs) :
                /\ SubSeq(out, LineStart(rs, i) + 1, LineStart(rs, i) + Len(rs[i])) = rs[i]
                /\ out[LineStart(rs, i) + Len(rs[i]) + 1] = NL
          /\ rs = <<<<120>>, <<121>>>> => out = <<120, NL, 121, NL>>

\* ["x", "", "y"] has been serialized to "x\n\ny\n"
C12_Witness ==
    /\ pc = "ser_done"
    /\ fin.rows = <<<<120>>, <<>>, <<121>>>>
    /\ fout.s = <<120, NL, NL, 121, NL>>

(***************************************************************************)
(* Saving in the main loop.                                                *)
(***************************************************************************)
SaveFailures == {"create_err", "write_err"}

\* C13: when Ctrl-S is processed and the save fails (in File::create or in
\* write), the lines, the cursor and the dirty flag are as before, the
\* status message is the error report, and the main loop goes on to the
\* next refresh.
C13_FailedSaveKeepsBuffer ==
    [][(pc = "key" /\ saved' \in SaveFailures) =>
          /\ editor'.rows = editor.rows
          /\ editor'.cx = editor.cx
          /\ editor'.cy = editor.cy
          /\ editor'.dirty = editor.dirty
          /\ editor'.status_msg = Msg("cant_save", 0)
          /\ pc' = "refresh"
          /\ exit_code' = exit_code]_vars

\* a save of a modified buffer has failed in write, after File::create
\* emptied the file: the buffer is still there and still dirty
C13_Witness ==
    /\ pc = "refresh"
    /\ saved = "write_err"
    /\ editor.status_msg = Msg("cant_save", 0)
    /\ editor.dirty
    /\ editor.rows # <<>>
    /\ disk = File(<<>>)

(***************************************************************************)
(* refresh_screen, one call, write by write.  fout.flushes counts the      *)
(* calls of stdout.flush(), fout.parts lists what has been written.        *)
(***************************************************************************)
\* the calls of self.write in refresh_screen, in order: line 294, draw_rows
\* (line 339), draw_status_bar (line 369), draw_message_bar (line 383),
\* line 302 and line 303
RfParts == <<"hide_home", "rows", "status_bar", "message_bar", "cursor", "show">>

InitRefresh ==
    /\ pc = "rf_scroll"
    /\ fin \in {[e |-> e] : e \in EditEditors}
    /\ editor = fin.e
    /\ raw = TRUE
    /\ restores = 0
    /\ exit_code = 0 - 1
    /\ ended_by = ""
    /\ streak = 0
    /\ disk = NoFile
    /\ saved = "none"
    /\ rk = RkStart
    /\ fout = [flushes |-> 0, parts |-> <<>>]

RfFrame == <<raw, restores, exit_code, ended_by, streak, disk, saved, rk, fin>>

\* line 293
RfScroll ==
    /\ pc = "rf_scroll"
    /\ editor' = scroll(editor)
    /\ pc' = IF editor'.panicked THEN "rf_panic" ELSE "rf_write"
    /\ UNCHANGED <<fout, RfFrame>>

\* the next self.write(..)? of refresh_screen: write, lines 429-433, is
\* write! and then flush, and either can fail
RfWrite ==
    /\ pc = "rf_write"
    /\ LET part == RfParts[Len(fout.parts) + 1]
       IN  IF \/ part = "rows" /\ (DrawRowsPanics(editor) \/ BannerUnderflows(editor))
              \/ part = "cursor" /\ CursorUnderflows(editor)
           THEN pc' = "rf_panic" /\ UNCHANGED fout
           ELSE \E res \in {"ok", "write_err", "flush_err"} :
                  /\ fout' = [flushes |-> IF res = "write_err" THEN fout.flushes
                                          ELSE fout.flushes + 1,
                              parts |-> IF res = "write_err" THEN fout.parts
                                        ELSE Append(fout.parts, part)]
                  /\ pc' = IF res # "ok" THEN "rf_err"
                           ELSE IF Len(fout'.parts) = Len(RfParts) THEN "rf_done"
                           ELSE "rf_write"
    /\ UNCHANGED <<editor, RfFrame>>

NextRefresh ==
    \/ RfScroll
    \/ RfWrite

SpecRefresh == InitRefresh /\ [][NextRefresh]_vars

\* C14: a refresh_screen that returns Ok has composed the whole frame and
\* flushed the terminal output exactly once; no refresh flushes more than
\* once.
C14_OneFlushPerRefresh ==
    /\ fout.flushes <= 1
    /\ pc = "rf_done" => (fout.flushes = 1 /\ Len(fout.parts) = Len(RfParts))

(***************************************************************************)
(* Exit codes of the main loop.                                            *)
(***************************************************************************)
\* how a fatal initialization error ends the process: through die (exit is
\* reached before any file is open), in an unwrap of the position report,
\* or in the unwrap of open
InitErrorEnd ==
    \/ ended_by = "exit" /\ editor.filename = "none"
    \/ ended_by \in {"report_unwrap", "open"}

\* C15: the process ends with code 0 on a quit, and with code 1 on every
\* fatal initialization error: no window size from the direct query nor
\* from the position report (missing or malformed), or a file that cannot
\* be opened.
C15_ExitCodes ==
    Ended =>
      /\ (ended_by = "exit" /\ editor.filename # "none") => exit_code = 0
      /\ InitErrorEnd => exit_code = 1

(***************************************************************************)
(* move_cursor at the ends of lines.                                       *)
(***************************************************************************)
Moved(key) == pc = "move_done" /\ fin.op = key

AtLineEnd(o) == o.cy < Len(o.rows) /\ o.cx = Len(o.rows[o.cy + 1])

CursorAt(n, y, x) == n.cy = y /\ n.cx = x

\* what every move_cursor leaves alone
MoveKeeps(o, n) == ~n.panicked /\ n.rows = o.rows /\ n.dirty = o.dirty

\* Left at cx = 0: to the end of the previous line only if cy > 0
LeftAtLineStart(o, n) ==
    o.cx = 0 =>
        IF o.cy > 0 THEN CursorAt(n, o.cy - 1, Len(o.rows[o.cy]))
        ELSE CursorAt(n, o.cy, o.cx)

\* C16 as stated: Right at the end of line cy advances to (cy+1, 0) only if
\* cy+1 < len(rows); at the end of the last line and on the virtual line
\* it leaves the cursor unchanged.  Left at cx = 0 moves to
\* (cy-1, len(rows[cy-1])) only if cy > 0.
C16_RightNeedsNextLine ==
    LET o == fin.e
        n == editor
    IN  /\ Moved("Right") =>
            /\ MoveKeeps(o, n)
            /\ (AtLineEnd(o) /\ o.cy + 1 < Len(o.rows)) => CursorAt(n, o.cy + 1, 0)
            /\ (AtLineEnd(o) /\ o.cy + 1 = Len(o.rows)) => CursorAt(n, o.cy, o.cx)
            /\ o.cy = Len(o.rows) => CursorAt(n, o.cy, o.cx)
        /\ Moved("Left") => (MoveKeeps(o, n) /\ LeftAtLineStart(o, n))

\* C16: Right at the end of any line cy < len(rows) advances to (cy+1, 0),
\* from the last line onto the virtual trailing line; only on the virtual
\* line does it leave the cursor unchanged.  Left at cx = 0 moves to
\* (cy-1, len(rows[cy-1])) only if cy > 0.
C16_RightEntersVirtualLine ==
    LET o == fin.e
        n == editor
    IN  /\ Moved("Right") =>
            /\ MoveKeeps(o, n)
            /\ AtLineEnd(o) => CursorAt(n, o.cy + 1, 0)
            /\ o.cy = Len(o.rows) => CursorAt(n, o.cy, o.cx)
        /\ Moved("Left") => (MoveKeeps(o, n) /\ LeftAtLineStart(o, n))

\* Right at the end of the last line has moved the cursor onto the virtual
\* trailing line
C16_Witness ==
    /\ Moved("Right")
    /\ AtLineEnd(fin.e)
    /\ fin.e.cy + 1 = Len(fin.e.rows)
    /\ CursorAt(editor, Len(editor.rows), 0)

(***************************************************************************)
(* cx_to_rx against the rendering of the line.                             *)
(***************************************************************************)
\* the line "a\tb"
ATabB == <<97, TAB, 98>>

\* C17: for a line of single-byte characters and cx <= len(line),
\* cx_to_rx(line, cx) is the length of render() of line[0..cx]; for "a\tb"
\* it is 0, 1, 8, 9 at cx = 0, 1, 2, 3.
C17_RxIsRenderedLength ==
    (pc = "rx_done" /\ IsAscii(fin.line)) =>
      /\ fout.ok
      /\ fout.rx = Len(render(Prefix(fin.line, fin.cx)))
      /\ fin.line = ATabB => fout.rx = <<0, 1, 8, 9>>[fin.cx + 1]

\* cx_to_rx("a\tb", 3) has returned 9, the length of the rendered line
C17_Witness ==
    /\ pc = "rx_done"
    /\ fin = [line |-> ATabB, cx |-> 3]
    /\ fout = [ok |-> TRUE, rx |-> 9]
    /\ Len(render(ATabB)) = 9

(***************************************************************************)
(* The bytes read_key consumes.                                            *)
(***************************************************************************)
\* the lookahead bytes taken from the input so far (a read that timed out
\* took none)
Consumed == IF rk.timeout THEN rk.look - 1 ELSE rk.look

\* C18: after ESC, read_key reads a further byte only while what it has
\* read is a proper prefix of a recognised sequence: a second lookahead
\* byte only after '[' or 'O', a third only after '[' and a digit.
C18_NoExtraByte ==
    rk.buf0 = ESC =>
      /\ Consumed >= 2 => rk.s0 \in {LBRACKET, LETTER_O}
      /\ Consumed >= 3 => (rk.s0 = LBRACKET /\ IsDigit(rk.s1))

(***************************************************************************)
(* The Del key.                                                            *)
(***************************************************************************)
\* what C19 says processing Del does to the editor o, giving n
DelKeyAsStated(o, n) ==
    /\ ~n.panicked
    /\ CursorAt(n, o.cy, o.cx)
    /\ (o.cy < Len(o.rows) /\ o.cx < Len(o.rows[o.cy + 1])) =>
          /\ Len(n.rows) = Len(o.rows)
          /\ n.rows[o.cy + 1] = Without(o.rows[o.cy + 1], o.cx)
          /\ \A k \in 1..Len(n.rows) : k # o.cy + 1 => n.rows[k] = o.rows[k]
    /\ (AtLineEnd(o) /\ o.cy + 1 < Len(o.rows)) =>
          /\ Len(n.rows) = Len(o.rows) - 1
          /\ n.rows[o.cy + 1] = o.rows[o.cy + 1] \o o.rows[o.cy + 2]
          /\ \A k \in 1..Len(n.rows) :
                k # o.cy + 1 => n.rows[k] = (IF k <= o.cy THEN o.rows[k] ELSE o.rows[k + 1])
    /\ ((AtLineEnd(o) /\ o.cy + 1 = Len(o.rows)) \/ o.cy = Len(o.rows)) =>
          SameBuffer(o, n)

\* C19: processing Del leaves the cursor at (cy, cx); inside a line it
\* removes the character at index cx, at the end of a non-last line it joins
\* the next line onto line cy, and when nothing follows the cursor it
\* changes neither the buffer, the dirty flag nor the cursor.
C19_DelKeepsCursor ==
    pc = "del_key_done" => DelKeyAsStated(fin.e, editor)

(***************************************************************************)
(* The dirty flag and the file.                                            *)
(***************************************************************************)
\* the file holds the buffer: its bytes are the serialization, or at least
\* its lines are the buffer's lines (a file loaded without a final newline)
FileHoldsBuffer ==
    /\ disk.exists
    /\ \/ disk.data = rows_to_string(editor.rows)
       \/ FileLines(disk.data, <<>>) = editor.rows

\* C20: whenever the dirty flag is false, the buffer is what the file held
\* at the most recent load or save.
C20_CleanMeansSaved ==
    (Running /\ ~editor.dirty) => FileHoldsBuffer

=============================================================================
